---- MODULE Spec2Model ----
(***************************************************************************)
(* Comic Engine backend: the depth endpoint (app.py), the depth use case   *)
(* (core/depth.py), the image codec (core/image_utils.py) and the Depth    *)
(* Anything V2 adapter (adapters/depth_anything.py).                       *)
(*                                                                         *)
(* Numbers.  Raster elements are exact rationals [n |-> Int, d |-> Int]:   *)
(* d > 0 is a finite value n/d, d = 0 is the result of a division by zero  *)
(* (NaN or an infinity).  Floating-point rounding and non-finite raw       *)
(* values are not modelled.                                                *)
(*                                                                         *)
(* Arrays.  A numpy array is [shape, dtype, data] with data in row-major   *)
(* order; in the request handler only the shape of each array is carried.  *)
(***************************************************************************)
EXTENDS Integers, Sequences, FiniteSets, TLC

VARIABLES
    \* ---- the use case and the codec as pure functions ----
    stage,          \* "predict" | "normalised" | "encoded"
    raw,            \* the raster the model port returned
    depth_map,      \* estimate_depth's result
    divided,        \* whether depth.py:30 (the division) was executed
    png,            \* depth_to_png's result, decoded
    \* ---- the process serving /api/depth ----
    env,            \* which accelerators torch reports available
    processor,      \* DepthAnythingV2Adapter._processor
    model,          \* DepthAnythingV2Adapter._model
    device,         \* DepthAnythingV2Adapter._device
    module,         \* the state of the nn.Module object behind _model
    running,        \* the request whose coroutine holds the event loop
    req,            \* per request: position, locals and response
    processorLoads, \* requests in which AutoImageProcessor.from_pretrained returned
    weightLoads,    \* requests in which AutoModelForDepthEstimation.from_pretrained returned
    predictLog,     \* requests that called _model.predict, in order
    firstWave       \* requests that awaited their upload together while _model was None

pvars == <<stage, raw, depth_map, divided, png>>
avars == <<env, processor, model, device, module>>
gvars == <<processorLoads, weightLoads, predictLog, firstWave>>
hvars == <<avars, running, req, gvars>>
vars == <<pvars, hvars>>

-----------------------------------------------------------------------------
(* Bounds *)

MaxCells == 4       \* a raw raster has at most this many elements
MaxRaw == 2         \* raw values range over -1 .. MaxRaw
MaxPngCells == 2    \* a depth array handed directly to depth_to_png
MaxDen == 3         \* its elements are n/d with d in 1 .. MaxDen
MaxReqs == 2        \* requests the process receives

-----------------------------------------------------------------------------
(* Rationals *)

Rat(n, d) == [n |-> n, d |-> d]
Finite(x) == x.d > 0
Leq(x, y) == x.n * y.d <= y.n * x.d
Less(x, y) == x.n * y.d < y.n * x.d
Zero == Rat(0, 1)
One == Rat(1, 1)

\* numpy true division of two scalars; a zero divisor gives a non-finite value
TrueDivide(a, b) ==
    IF b = 0 THEN Rat(0, 0)
    ELSE IF b < 0 THEN Rat(0 - a, 0 - b)
    ELSE Rat(a, b)

-----------------------------------------------------------------------------
(* numpy arrays *)

RECURSIVE Prod(_)
Prod(shape) == IF shape = <<>> THEN 1 ELSE Head(shape) * Prod(Tail(shape))

Array(shape, dtype, data) == [shape |-> shape, dtype |-> dtype, data |-> data]

NoArray == Array(<<0>>, "none", <<>>)

RECURSIVE SeqMin(_)
SeqMin(s) ==
    IF Len(s) = 1 THEN s[1]
    ELSE LET m == SeqMin(Tail(s)) IN IF s[1] <= m THEN s[1] ELSE m

RECURSIVE SeqMax(_)
SeqMax(s) ==
    IF Len(s) = 1 THEN s[1]
    ELSE LET m == SeqMax(Tail(s)) IN IF s[1] >= m THEN s[1] ELSE m

zeros_like(a, dtype) == Array(a.shape, dtype, [i \in DOMAIN a.data |-> Zero])

-----------------------------------------------------------------------------
(* core/depth.py *)

\* depth.py:24-31 with the guard of line 27 removed
estimate_depth_unguarded(r) ==
    LET min_val == SeqMin(r.data)
        max_val == SeqMax(r.data)
    IN  [out |-> Array(r.shape, "float32",
                       [i \in DOMAIN r.data |->
                           TrueDivide(r.data[i] - min_val, max_val - min_val)]),
         divided |-> TRUE]

\* depth.py:30 dividing by max_val instead of the range
estimate_depth_by_max(r) ==
    LET min_val == SeqMin(r.data)
        max_val == SeqMax(r.data)
    IN  IF min_val = max_val
        THEN [out |-> zeros_like(r, "float32"), divided |-> FALSE]
        ELSE [out |-> Array(r.shape, "float32",
                            [i \in DOMAIN r.data |->
                                TrueDivide(r.data[i] - min_val, max_val)]),
              divided |-> TRUE]

\* estimate_depth after model.predict returned r
estimate_depth(r) ==
    LET min_val == SeqMin(r.data)
        max_val == SeqMax(r.data)
    IN  IF min_val = max_val
        THEN [out |-> zeros_like(r, "float32"), divided |-> FALSE]
        ELSE [out |-> Array(r.shape, "float32",
                            [i \in DOMAIN r.data |->
                                TrueDivide(r.data[i] - min_val, max_val - min_val)]),
              divided |-> TRUE]

-----------------------------------------------------------------------------
(* core/image_utils.py: depth_to_png *)

\* ndarray.clip(lo, hi) on one element
clip(x, lo, hi) ==
    IF Less(x, Rat(lo, 1)) THEN Rat(lo, 1)
    ELSE IF Less(Rat(hi, 1), x) THEN Rat(hi, 1)
    ELSE x

\* astype(np.uint8) on one element: truncate toward zero, keep the low 8 bits
astype_uint8(x) ==
    LET t == IF x.n >= 0 THEN x.n \div x.d ELSE 0 - ((0 - x.n) \div x.d)
    IN  t % 256

\* image_utils.py:41 without .clip(0, 255)
to_uint8_unclipped(v) == astype_uint8(Rat(v.n * 255, v.d))

\* image_utils.py:41 on one element
to_uint8(v) == astype_uint8(clip(Rat(v.n * 255, v.d), 0, 255))

\* Image.fromarray(uint8, mode="L"): PIL takes size (1, n) for a 1-D array,
\* (shape[1], shape[0]) for a 2-D one, and raises on a 0-d one
fromarray_size(shape) ==
    IF Len(shape) = 1 THEN <<1, shape[1]>> ELSE <<shape[2], shape[1]>>

\* depth_to_png, read back by Image.open: PNG is lossless
depth_to_png(a) ==
    [format |-> "PNG", mode |-> "L", size |-> fromarray_size(a.shape),
     pixels |-> [i \in DOMAIN a.data |-> to_uint8(a.data[i])]]

NoPng == [format |-> "none", mode |-> "none", size |-> <<0, 0>>, pixels |-> <<>>]

-----------------------------------------------------------------------------
(* The pure pipeline: a stub port returns raw; estimate_depth, depth_to_png *)

Shapes(cells) == {<<h, w>> : h \in 1..cells, w \in 1..cells}

SeqsOf(S, n) == [1..n -> S]

RawValues == (0 - 1)..MaxRaw

RawShapes == {s \in Shapes(MaxCells) : Prod(s) <= MaxCells}

\* values below 0, in [0,1] and above 1
DepthValues == {Rat(n, d) : n \in (0 - 1)..(MaxDen + 1), d \in 1..MaxDen}

PngShapes == {s \in Shapes(MaxPngCells) : Prod(s) <= MaxPngCells}

EstimateDepth ==
    /\ stage = "predict"
    /\ LET res == estimate_depth(raw)
       IN  /\ depth_map' = res.out
           /\ divided' = res.divided
    /\ stage' = "normalised"
    /\ UNCHANGED <<raw, png, hvars>>

DepthToPng ==
    /\ stage = "normalised"
    /\ png' = depth_to_png(depth_map)
    /\ stage' = "encoded"
    /\ UNCHANGED <<raw, depth_map, divided, hvars>>

-----------------------------------------------------------------------------
(* Program constants *)

TestWidth == 80
TestHeight == 60

-----------------------------------------------------------------------------
(* Uploads and images *)

NoReq == 0
Requests == 1..MaxReqs

ImageWidths == {1, TestWidth}
ImageHeights == {1, TestHeight}

\* "image": decodes; "truncated": Image.open parses the header and img.load()
\* fails; "garbage": Image.open fails
Uploads ==
    {[kind |-> "image", size |-> <<w, h>>] : w \in ImageWidths, h \in ImageHeights}
    \cup {[kind |-> k, size |-> <<0, 0>>] : k \in {"truncated", "garbage"}}

NoUpload == [kind |-> "none", size |-> <<0, 0>>]
NoShape == <<0>>
NoSize == <<0, 0>>

Returned(size) == [raised |-> FALSE, kind |-> "none", msg |-> "", size |-> size]
Raised(kind, msg) == [raised |-> TRUE, kind |-> kind, msg |-> msg, size |-> NoSize]

\* decode_upload without img.load(): a truncated file passes Image.open and
\* img.convert then fails outside the try block
decode_upload_header_only(u) ==
    IF u.kind = "garbage" THEN Raised("ValueError", "Invalid image data")
    ELSE IF u.kind = "truncated" THEN Raised("Other", "image file is truncated")
    ELSE Returned(u.size)

\* decode_upload: convert("RGB") keeps the size and is taken not to raise on
\* a fully loaded image
decode_upload(u) ==
    IF u.kind = "image" THEN Returned(u.size)
    ELSE Raised("ValueError", "Invalid image data")

-----------------------------------------------------------------------------
(* str(int) for a non-negative int, as the sequence of its characters *)

Digit == <<"0", "1", "2", "3", "4", "5", "6", "7", "8", "9">>

RECURSIVE str(_)
str(n) ==
    IF n < 10 THEN <<Digit[n + 1]>>
    ELSE Append(str(n \div 10), Digit[(n % 10) + 1])

-----------------------------------------------------------------------------
(* adapters/depth_anything.py *)

Envs == [mps : BOOLEAN, cuda : BOOLEAN]

_detect_device(e) ==
    IF e.mps THEN "mps" ELSE IF e.cuda THEN "cuda" ELSE "cpu"

\* from_pretrained builds the module on the cpu, in evaluation mode
FreshModule == [device |-> "cpu", eval |-> TRUE]
NoModule == [device |-> "none", eval |-> FALSE]

squeeze(shape) == SelectSeq(shape, LAMBDA d : d # 1)

unsqueeze(shape, dim) ==
    SubSeq(shape, 1, dim) \o <<1>> \o SubSeq(shape, dim + 1, Len(shape))

\* torch.nn.functional.interpolate(x, size=size): batch and channel kept
interpolate(shape, size) == <<shape[1], shape[2]>> \o size

\* depth_anything.py:60-69 for a network output of shape (1, ph, pw)
predict_shape(size, ph, pw) ==
    squeeze(interpolate(unsqueeze(<<1, ph, pw>>, 1), <<size[2], size[1]>>))

-----------------------------------------------------------------------------
(* app.py: the depth handler *)

ExcKinds == {"ValueError", "Other"}

\* the try block reaching over estimate_depth and depth_to_png as well
CaughtAnywhere(pcv, kind) == kind = "ValueError"

\* app.py:31-34: only decode_upload is inside the try, only ValueError is caught
Caught(pcv, kind) == pcv = "decode" /\ kind = "ValueError"

\* every statement a suspension point (the handler run on worker threads)
YieldsAnywhere(pcv) == TRUE

\* the handler's only await is file.read() (app.py:30); estimate_depth and
\* depth_to_png are plain calls
Yields(pcv) == pcv = "read"

NoHeaders == [k \in {} |-> <<>>]

NoResponse ==
    [status |-> 0, media_type |-> "", detail |-> "", headers |-> NoHeaders,
     body |-> NoSize]

\* HTTPException(status_code=400, detail=str(e))
Response400(msg) ==
    [status |-> 400, media_type |-> "application/json", detail |-> msg,
     headers |-> NoHeaders, body |-> NoSize]

\* an exception leaving the handler: the framework's generic 500
Response500 ==
    [status |-> 500, media_type |-> "text/plain", detail |-> "Internal Server Error",
     headers |-> NoHeaders, body |-> NoSize]

\* app.py:39-46
Response200(shape, body) ==
    [status |-> 200, media_type |-> "image/png", detail |-> "",
     headers |-> [k \in {"X-Depth-Width", "X-Depth-Height"} |->
                     IF k = "X-Depth-Width" THEN str(shape[2]) ELSE str(shape[1])],
     body |-> body]

NewRequest ==
    [pc |-> "idle", upload |-> NoUpload, image |-> NoSize, raw |-> NoShape,
     depth_map |-> NoShape, png |-> NoSize, response |-> NoResponse,
     predictCalls |-> 0, predictRaised |-> FALSE, pngCalls |-> 0]

\* no local changes
Keep == [f \in {} |-> 0]

\* the guard of _load never true (every call loads again)
IsLoadedNever == FALSE

\* depth_anything.py:35: `self._model is not None`
IsLoaded == model # "None"

MayStep(r) == running \in {NoReq, r}

\* who holds the event loop after request r moved to pcv
Holder(r, pcv) == IF Yields(pcv) \/ pcv = "done" THEN NoReq ELSE r

\* request r moves to pcv with the fields in upd changed
Goto(r, pcv, upd) ==
    /\ req' = [req EXCEPT ![r] =
                  [f \in DOMAIN req[r] |->
                      IF f = "pc" THEN pcv
                      ELSE IF f \in DOMAIN upd THEN upd[f] ELSE req[r][f]]]
    /\ running' = Holder(r, pcv)

\* an exception of the given kind raised while r is at its current statement
Throw(r, kind, msg, upd) ==
    Goto(r, "done",
         [response |-> IF Caught(req[r].pc, kind) THEN Response400(msg)
                       ELSE Response500] @@ upd)

\* the request reaches the handler, which runs to `await file.read()`;
\* requests are numbered in their order of arrival
Receive(r, u) ==
    /\ req[r].pc = "idle"
    /\ IF r = 1 THEN TRUE ELSE req[r - 1].pc # "idle"
    /\ MayStep(r)
    /\ Goto(r, "read", [upload |-> u])
    /\ firstWave' =
          LET waiting == {q \in Requests : req[q].pc = "read"}
          IN  IF model = "None" /\ waiting # {}
              THEN firstWave \cup waiting \cup {r} ELSE firstWave
    /\ UNCHANGED <<avars, processorLoads, weightLoads, predictLog, pvars>>

\* app.py:30: the upload's bytes arrive and the coroutine resumes
ReadDone(r) ==
    /\ req[r].pc = "read"
    /\ MayStep(r)
    /\ Goto(r, "decode", Keep)
    /\ UNCHANGED <<avars, gvars, pvars>>

\* app.py:31-34
Decode(r) ==
    /\ req[r].pc = "decode"
    /\ MayStep(r)
    /\ LET res == decode_upload(req[r].upload)
       IN  IF res.raised
           THEN Throw(r, res.kind, res.msg, Keep)
           ELSE Goto(r, "predict", [image |-> res.size])
    /\ UNCHANGED <<avars, gvars, pvars>>

\* depth.py:22 -> depth_anything.py:55 and 35-43
LoadCheck(r) ==
    /\ req[r].pc = "predict"
    /\ MayStep(r)
    /\ predictLog' = Append(predictLog, r)
    /\ IF IsLoaded
       THEN /\ Goto(r, "infer", [predictCalls |-> req[r].predictCalls + 1])
            /\ UNCHANGED device
       ELSE /\ Goto(r, "load_processor", [predictCalls |-> req[r].predictCalls + 1])
            /\ device' = _detect_device(env)
    /\ UNCHANGED <<env, processor, model, module, processorLoads, weightLoads,
                   firstWave, pvars>>

\* depth_anything.py:45-47
LoadProcessor(r) ==
    /\ req[r].pc = "load_processor"
    /\ MayStep(r)
    /\ \/ /\ processor' = "loaded"
          /\ processorLoads' = Append(processorLoads, r)
          /\ Goto(r, "load_model", Keep)
       \/ /\ \E k \in ExcKinds :
                Throw(r, k, "processor load failed", [predictRaised |-> TRUE])
          /\ UNCHANGED <<processor, processorLoads>>
    /\ UNCHANGED <<env, model, device, module, weightLoads, predictLog, firstWave,
                   pvars>>

\* depth_anything.py:48-50
LoadModel(r) ==
    /\ req[r].pc = "load_model"
    /\ MayStep(r)
    /\ \/ /\ model' = "loaded"
          /\ module' = FreshModule
          /\ weightLoads' = Append(weightLoads, r)
          /\ Goto(r, "load_to", Keep)
       \/ /\ \E k \in ExcKinds :
                Throw(r, k, "model load failed", [predictRaised |-> TRUE])
          /\ UNCHANGED <<model, module, weightLoads>>
    /\ UNCHANGED <<env, processor, device, processorLoads, predictLog, firstWave,
                   pvars>>

\* depth_anything.py:51-52; moving to the cpu, where the module is, cannot fail
LoadTo(r) ==
    /\ req[r].pc = "load_to"
    /\ MayStep(r)
    /\ \/ /\ module' = [device |-> device, eval |-> TRUE]
          /\ Goto(r, "infer", Keep)
       \/ /\ device # "cpu"
          /\ \E k \in ExcKinds :
                Throw(r, k, "moving the model failed", [predictRaised |-> TRUE])
          /\ UNCHANGED module
    /\ UNCHANGED <<env, processor, model, device, gvars, pvars>>

\* depth_anything.py:56-69
Infer(r) ==
    /\ req[r].pc = "infer"
    /\ MayStep(r)
    /\ \/ \E ph \in ImageHeights, pw \in ImageWidths :
             Goto(r, "normalise", [raw |-> predict_shape(req[r].image, ph, pw)])
       \/ \E k \in ExcKinds :
             Throw(r, k, "inference failed", [predictRaised |-> TRUE])
    /\ UNCHANGED <<avars, gvars, pvars>>

\* depth.py:24-31: min, max and the element-wise result keep the shape
Normalise(r) ==
    /\ req[r].pc = "normalise"
    /\ MayStep(r)
    /\ Goto(r, "encode", [depth_map |-> req[r].raw])
    /\ UNCHANGED <<avars, gvars, pvars>>

\* app.py:37: Image.fromarray raises on a 0-d array
Encode(r) ==
    /\ req[r].pc = "encode"
    /\ MayStep(r)
    /\ IF Len(req[r].depth_map) = 0
       THEN Throw(r, "Other", "tuple index out of range",
                  [pngCalls |-> req[r].pngCalls + 1])
       ELSE Goto(r, "respond", [png |-> fromarray_size(req[r].depth_map),
                                pngCalls |-> req[r].pngCalls + 1])
    /\ UNCHANGED <<avars, gvars, pvars>>

\* app.py:39-46: depth_map.shape[1] raises IndexError on a 1-D array
Respond(r) ==
    /\ req[r].pc = "respond"
    /\ MayStep(r)
    /\ IF Len(req[r].depth_map) < 2
       THEN Throw(r, "Other", "tuple index out of range", Keep)
       ELSE Goto(r, "done",
                 [response |-> Response200(req[r].depth_map, req[r].png)])
    /\ UNCHANGED <<avars, gvars, pvars>>

-----------------------------------------------------------------------------
(* Specifications *)

PIdle ==
    /\ stage = "off"
    /\ raw = NoArray
    /\ depth_map = NoArray
    /\ divided = FALSE
    /\ png = NoPng

HStart(e) ==
    /\ env = e
    /\ processor = "None"
    /\ model = "None"
    /\ device = "None"
    /\ module = NoModule
    /\ running = NoReq
    /\ req = [r \in Requests |-> NewRequest]
    /\ processorLoads = <<>>
    /\ weightLoads = <<>>
    /\ predictLog = <<>>
    /\ firstWave = {}

\* the process after import: app.py:20 constructed the adapter
Init == PIdle /\ \E e \in Envs : HStart(e)

Next ==
    \E r \in Requests :
        \/ \E u \in Uploads : Receive(r, u)
        \/ ReadDone(r)
        \/ Decode(r)
        \/ LoadCheck(r)
        \/ LoadProcessor(r)
        \/ LoadModel(r)
        \/ LoadTo(r)
        \/ Infer(r)
        \/ Normalise(r)
        \/ Encode(r)
        \/ Respond(r)

Spec == Init /\ [][Next]_vars

\* estimate_depth on a stub port's raster, then depth_to_png
DepthInit ==
    /\ stage = "predict"
    /\ \E sh \in RawShapes : \E d \in SeqsOf(RawValues, Prod(sh)) :
          raw = Array(sh, "float32", d)
    /\ depth_map = NoArray
    /\ divided = FALSE
    /\ png = NoPng
    /\ HStart([mps |-> FALSE, cuda |-> FALSE])

DepthNext == EstimateDepth \/ DepthToPng

SpecDepth == DepthInit /\ [][DepthNext]_vars

\* depth_to_png on an arbitrary array
PngInit ==
    /\ stage = "normalised"
    /\ raw = NoArray
    /\ \E sh \in PngShapes : \E d \in SeqsOf(DepthValues, Prod(sh)) :
          depth_map = Array(sh, "float32", d)
    /\ divided = FALSE
    /\ png = NoPng
    /\ HStart([mps |-> FALSE, cuda |-> FALSE])

PngNext == DepthToPng

SpecPng == PngInit /\ [][PngNext]_vars

-----------------------------------------------------------------------------
(* Claims about estimate_depth (SpecDepth) *)

Cells == DOMAIN raw.data
NonDegenerate == \E i, j \in Cells : raw.data[i] # raw.data[j]
Lowest == CHOOSE x \in {raw.data[i] : i \in Cells} : \A j \in Cells : x <= raw.data[j]
Highest == CHOOSE x \in {raw.data[i] : i \in Cells} : \A j \in Cells : x >= raw.data[j]

\* C1: for a raster whose minimum differs from its maximum, estimate_depth
\* returns a map of the same shape whose elements are all in [0,1], with a
\* smallest element exactly 0 and a largest exactly 1, order-preserving, each
\* element equal to (raw - min) / (max - min).
C1_Normalised ==
    (stage # "predict" /\ NonDegenerate) =>
        /\ depth_map.shape = raw.shape
        /\ DOMAIN depth_map.data = Cells
        /\ \A i \in Cells :
              /\ Finite(depth_map.data[i])
              /\ Leq(Zero, depth_map.data[i])
              /\ Leq(depth_map.data[i], One)
              /\ depth_map.data[i].n * (Highest - Lowest)
                    = (raw.data[i] - Lowest) * depth_map.data[i].d
        /\ \E i \in Cells : depth_map.data[i].n = 0
        /\ \E i \in Cells : depth_map.data[i].n = depth_map.data[i].d
        /\ \A p, q \in Cells :
              raw.data[p] <= raw.data[q] => Leq(depth_map.data[p], depth_map.data[q])

\* a 2x2 raster with four different values has been normalised
C1_Witness ==
    /\ stage = "normalised"
    /\ raw.shape = <<2, 2>>
    /\ \A i, j \in Cells : i # j => raw.data[i] # raw.data[j]
    /\ \E i \in Cells : Less(Zero, depth_map.data[i]) /\ Less(depth_map.data[i], One)

\* C2: for a raster whose elements are all equal, estimate_depth returns a
\* map of the same shape whose elements are all 0, without executing the
\* division, and no element is the result of a division by zero.
C2_Constant ==
    (stage # "predict" /\ ~NonDegenerate) =>
        /\ depth_map.shape = raw.shape
        /\ DOMAIN depth_map.data = Cells
        /\ \A i \in Cells : Finite(depth_map.data[i]) /\ depth_map.data[i].n = 0
        /\ ~divided

\* a constant non-zero 2x2 raster has been normalised
C2_Witness ==
    /\ stage = "normalised"
    /\ raw.shape = <<2, 2>>
    /\ \A i \in Cells : raw.data[i] = MaxRaw
    /\ \A i \in Cells : depth_map.data[i] = Zero

-----------------------------------------------------------------------------
(* Claims about depth_to_png (SpecPng) *)

InUnit(v) == Leq(Zero, v) /\ Leq(v, One)
Abs(x) == IF x < 0 THEN 0 - x ELSE x
\* the integer k with k <= 255 * v < k + 1
Floor255(v) == CHOOSE k \in 0..255 : k * v.d <= 255 * v.n /\ 255 * v.n < (k + 1) * v.d

\* C8: depth_to_png gives a single-channel 8-bit image of the array's width
\* and height; a value in [0,1] becomes floor(value * 255), and pixel / 255
\* is within 1/255 of it; a value below 0 becomes 0 and one above 1 becomes 255.
C8_Quantised ==
    stage = "encoded" =>
        /\ png.mode = "L"
        /\ png.size = <<depth_map.shape[2], depth_map.shape[1]>>
        /\ DOMAIN png.pixels = DOMAIN depth_map.data
        /\ \A i \in DOMAIN depth_map.data :
              LET v == depth_map.data[i]
                  px == png.pixels[i]
              IN  /\ px \in 0..255
                  /\ InUnit(v) => /\ px = Floor255(v)
                                  /\ Abs(px * v.d - 255 * v.n) <= v.d
                  /\ Less(v, Zero) => px = 0
                  /\ Less(One, v) => px = 255

\* an array holding a value below 0 and one strictly inside (0,1) that is no
\* multiple of 1/255 has been encoded
C8_Witness ==
    /\ stage = "encoded"
    /\ Len(depth_map.data) = 2
    /\ \E i, j \in DOMAIN depth_map.data :
          /\ Less(depth_map.data[i], Zero)
          /\ png.pixels[i] = 0
          /\ InUnit(depth_map.data[j])
          /\ png.pixels[j] * depth_map.data[j].d < 255 * depth_map.data[j].n

-----------------------------------------------------------------------------
(* Claims about the handler and the adapter (Spec) *)

Undecodable(u) == u.kind \in {"truncated", "garbage"}
PastDecode(r) == req[r].pc \notin {"idle", "read", "decode"}
Done(r) == req[r].pc = "done"
LoadPcs == {"load_processor", "load_model", "load_to"}
PastLoad(r) == req[r].predictCalls > 0 /\ req[r].pc \notin LoadPcs

DigitValue(c) == CHOOSE d \in 0..9 : Digit[d + 1] = c
RECURSIVE DecimalValue(_)
DecimalValue(s) ==
    IF s = <<>> THEN 0
    ELSE DecimalValue(SubSeq(s, 1, Len(s) - 1)) * 10 + DigitValue(s[Len(s)])
\* a decimal string as str() writes it: digits, no leading zero
IsDecimal(s) ==
    /\ Len(s) >= 1
    /\ \A i \in 1..Len(s) : \E d \in 0..9 : Digit[d + 1] = s[i]
    /\ Len(s) > 1 => s[1] # "0"

\* C3: a request whose upload cannot be decoded ends with 400 "Invalid image
\* data", with neither predict nor depth_to_png called; a 400 is given only
\* to such a request.
C3_InvalidUpload ==
    \A r \in Requests :
        /\ (PastDecode(r) /\ Undecodable(req[r].upload)) =>
              /\ Done(r)
              /\ req[r].response.status = 400
              /\ req[r].response.detail = "Invalid image data"
              /\ req[r].predictCalls = 0
              /\ req[r].pngCalls = 0
        /\ req[r].response.status = 400 => Undecodable(req[r].upload)

\* a truncated upload was answered 400 while another request got its 200
C3_Witness ==
    \E r, q \in Requests :
        /\ Done(r)
        /\ req[r].upload.kind = "truncated"
        /\ req[r].response.status = 400
        /\ req[q].response.status = 200

\* C4: a request whose upload decodes to W x H and whose model call succeeds
\* is answered 200, image/png, with X-Depth-Width and X-Depth-Height the
\* decimal strings of W and H.
C4_DimensionHeaders ==
    \A r \in Requests :
        (Done(r) /\ req[r].upload.kind = "image" /\ ~req[r].predictRaised) =>
            /\ req[r].response.status = 200
            /\ req[r].response.media_type = "image/png"
            /\ DOMAIN req[r].response.headers = {"X-Depth-Width", "X-Depth-Height"}
            /\ IsDecimal(req[r].response.headers["X-Depth-Width"])
            /\ IsDecimal(req[r].response.headers["X-Depth-Height"])
            /\ DecimalValue(req[r].response.headers["X-Depth-Width"])
                  = req[r].upload.size[1]
            /\ DecimalValue(req[r].response.headers["X-Depth-Height"])
                  = req[r].upload.size[2]

\* C5: predict returns a raster of shape (h, w) for every image of width w
\* and height h, w = 1 and h = 1 included.
C5_PredictShape ==
    \A r \in Requests :
        req[r].raw # NoShape => req[r].raw = <<req[r].image[2], req[r].image[1]>>

NoPredictRaised == \A r \in Requests : ~req[r].predictRaised
LoadFinished ==
    /\ model # "None"
    /\ module = [device |-> device, eval |-> TRUE]
    /\ \A r \in Requests : req[r].pc \notin LoadPcs

\* C6: while no predict call has failed, the processor and the weights are
\* loaded at most once, and once a call is past _load exactly once, in the
\* first call; after a load has finished, _model, _processor and _device
\* never change and nothing is loaded again.
C6_LoadedOnce ==
    /\ [](NoPredictRaised =>
            /\ Len(processorLoads) <= 1
            /\ Len(weightLoads) <= 1
            /\ (\E r \in Requests : PastLoad(r)) =>
                  /\ processorLoads = <<predictLog[1]>>
                  /\ weightLoads = <<predictLog[1]>>)
    /\ [][LoadFinished =>
            /\ model' = model
            /\ processor' = processor
            /\ device' = device
            /\ module' = module
            /\ processorLoads' = processorLoads
            /\ weightLoads' = weightLoads]_vars

\* two predict calls have returned, none has failed, and the second loaded nothing
C6_Witness ==
    /\ NoPredictRaised
    /\ Len(predictLog) = 2
    /\ \A r \in Requests : req[r].response.status = 200
    /\ weightLoads = <<predictLog[1]>>
    /\ predictLog[2] # predictLog[1]

\* C7: a request whose upload decodes and whose model load or inference
\* fails ends as an unhandled fault (500, no image, no headers), never 400 or
\* 200; predict is called at most once per request.
C7_ModelFault ==
    \A r \in Requests :
        /\ req[r].predictCalls <= 1
        /\ (req[r].upload.kind = "image" /\ req[r].predictRaised) =>
              /\ Done(r)
              /\ req[r].response = Response500
              /\ req[r].pngCalls = 0

\* a request failed in the model after an earlier one had succeeded
C7_Witness ==
    \E r, q \in Requests :
        /\ req[r].predictRaised
        /\ req[r].response.status = 500
        /\ req[r].pc = "done"
        /\ model = "loaded"
        /\ req[q].response.status = 200

\* C9 as amended: the handler suspends only at the upload read, so at most
\* one request is inside _load at a time and the weights are loaded at most
\* once per process.
C9_NoRedundantLoad ==
    /\ Cardinality({r \in Requests : req[r].pc \in LoadPcs}) <= 1
    /\ Len(weightLoads) <= 1

\* two requests awaited their uploads together before anything was loaded,
\* and both were answered 200 after a single load
C9_Witness ==
    /\ Cardinality(firstWave) >= 2
    /\ \A r \in firstWave : req[r].response.status = 200
    /\ Len(weightLoads) = 1
    /\ Len(processorLoads) = 1

\* C9 as stated: concurrent first requests both execute the load, so the
\* weights are loaded more than once.
C9_RaceLoadsTwice ==
    (/\ Cardinality(firstWave) >= 2
     /\ \A r \in firstWave : Done(r) /\ req[r].predictCalls > 0 /\ ~req[r].predictRaised)
        => Len(weightLoads) >= 2

\* C10: whenever predict is past _load, the processor is loaded, a device is
\* selected and the model is on that device in evaluation mode, also after
\* an earlier call failed inside _load.
C10_InitialisedAtInference ==
    \A r \in Requests :
        req[r].pc = "infer" =>
            /\ processor = "loaded"
            /\ device # "None"
            /\ module.device = device
            /\ module.eval

====
